---- MODULE Spec2Model ----
(***************************************************************************)
(* Session lifecycle of the RDP session manager API (src/api/main.py).     *)
(*                                                                         *)
(* The module registers two handlers for POST /api/v1/sessions and two for *)
(* DELETE /api/v1/sessions/{session_sub}.  Both pairs are modelled: the    *)
(* handlers defined first (lines 158 and 223) carry the suffix _a, the     *)
(* handlers defined second (lines 301 and 385) the suffix _b.              *)
(*                                                                         *)
(* Every handler is cut at its external calls (a Supabase query or a       *)
(* shell script run); one action is one such call together with the local  *)
(* code that follows it up to the next call.  Requests are served by       *)
(* independent workers, so the steps of different requests interleave.     *)
(*                                                                         *)
(* A cleanup script run changes nothing the handlers read, so it shares an  *)
(* action with the store call that follows or precedes it.  A finished     *)
(* request stays at "done" with its call record until Finish delivers the  *)
(* response; responses are delivered one at a time, before any other step. *)
(*                                                                         *)
(* Values: a session sub, fqdn and password are represented by the number  *)
(* of the provisioner run that produced them; 0 stands for None.  Time is  *)
(* counted in hours, and the server's local time zone is taken to be UTC.  *)
(***************************************************************************)
EXTENDS Integers, Sequences, FiniteSets, TLC

\* ---- bounds of the model ------------------------------------------------
MaxSubs == 2
MaxTime == 2

Procs == {"w1", "w2"}
None == 0

\* ---- program constants ---------------------------------------------------
MinDuration == 1
MaxDuration == 24

start_tag == "--- API_OUTPUT_START ---"
end_tag == "--- API_OUTPUT_END ---"
RequiredKeys == <<"SESSION_SUB", "FQDN", "RDP_PASSWORD">>
OutputKeys == {"SESSION_SUB", "FQDN", "RDP_USERNAME", "RDP_PASSWORD"}
\* The rdp_username of the request body; the create script echoes it.
RdpUsername == 1
LogLine == "log line without equals sign"

\* ---- the shell script runner ---------------------------------------------
\* What subprocess.run can do with a script: exit 0, exit non-zero, be
\* missing, or exceed the 60 second timeout.
ScriptOutcomes == {"ok", "failed", "notfound", "timeout"}

run_shell_script_raises_unchecked(rc) == rc \in {"notfound", "timeout"}
run_shell_script_raises(rc) == rc \in {"failed", "notfound", "timeout"}

\* The HTTPException run_shell_script raises for an outcome.
run_shell_script_error_generic(rc) == "ProvisionActionFailed"
run_shell_script_error(rc) ==
    CASE rc = "failed" -> "ProvisionActionFailed"
      [] rc = "notfound" -> "ProvisionScriptNotFound"
      [] rc = "timeout" -> "ProvisionTimeout"

\* The stdout texts of the create script that the model tries, line by line.
OutputShapes ==
    { <<start_tag, "SESSION_SUB", "FQDN", "RDP_USERNAME", "RDP_PASSWORD", end_tag>>,
      <<start_tag, "SESSION_SUB", "FQDN", "RDP_PASSWORD", end_tag>>,
      <<LogLine, start_tag, "SESSION_SUB", "FQDN", "RDP_USERNAME", "RDP_PASSWORD", end_tag>>,
      <<start_tag, "SESSION_SUB", "FQDN", "RDP_USERNAME", "RDP_PASSWORD">>,
      <<"SESSION_SUB", "FQDN", "RDP_USERNAME", "RDP_PASSWORD", end_tag>>,
      <<start_tag, "FQDN", "RDP_USERNAME", "RDP_PASSWORD", end_tag>>,
      <<start_tag, "SESSION_SUB", "RDP_USERNAME", "RDP_PASSWORD", end_tag>>,
      <<start_tag, "SESSION_SUB", "FQDN", "RDP_USERNAME", end_tag>>,
      <<start_tag, LogLine, "SESSION_SUB", "FQDN", "RDP_USERNAME", "RDP_PASSWORD", end_tag>>,
      <<start_tag, end_tag>> }

\* ---- str.split on whole lines ----------------------------------------------
Contains(out, tag) == \E i \in 1..Len(out) : out[i] = tag

FirstIndex(out, tag) ==
    IF Contains(out, tag)
    THEN CHOOSE i \in 1..Len(out) :
             out[i] = tag /\ \A j \in 1..(i - 1) : out[j] # tag
    ELSE 0

\* out.split(tag)[0]
SplitHead(out, tag) ==
    IF Contains(out, tag) THEN SubSeq(out, 1, FirstIndex(out, tag) - 1) ELSE out

\* out.split(tag)[1], defined only when tag occurs in out
SplitSecond(out, tag) ==
    SplitHead(SubSeq(out, FirstIndex(out, tag) + 1, Len(out)), tag)

api_output_block(out) == SplitHead(SplitSecond(out, start_tag), end_tag)

HasEquals(line) == line \notin {LogLine, start_tag, end_tag}

\* The dictionary built from the KEY=VALUE lines of a block: a key maps to
\* the value the script printed (n, or the user name), or to None when the
\* key has no line.
BlockDict(block, n) ==
    [k \in OutputKeys |->
        IF ~Contains(block, k) THEN None
        ELSE IF k = "RDP_USERNAME" THEN RdpUsername ELSE n]

NoDict == [k \in OutputKeys |-> None]

\* create_session (line 158), step 4: both tags must occur somewhere in the
\* output; lines without '=' are skipped; missing keys read as None.
parse_output_a(out, n) ==
    IF Contains(out, start_tag) /\ Contains(out, end_tag)
    THEN [ok |-> TRUE, dict |-> BlockDict(api_output_block(out), n)]
    ELSE [ok |-> FALSE, dict |-> NoDict]

\* create_session (line 301), step 4: split(...)[1] raises IndexError without
\* the start tag; a line without '=' (also the single empty line of an empty
\* block) raises ValueError on unpacking; a missing required key raises
\* KeyError.  session_sub is bound only when the loop finished and the
\* SESSION_SUB key exists.  A missing end tag raises nothing.
parse_output_b(out, n) ==
    IF ~Contains(out, start_tag)
    THEN [ok |-> FALSE, dict |-> NoDict, session_sub |-> None]
    ELSE LET block == api_output_block(out)
             d == BlockDict(block, n)
         IN  IF Len(block) = 0 \/ \E i \in 1..Len(block) : ~HasEquals(block[i])
             THEN [ok |-> FALSE, dict |-> NoDict, session_sub |-> None]
             ELSE [ok |-> \A i \in 1..Len(RequiredKeys) : d[RequiredKeys[i]] # None,
                   dict |-> d,
                   session_sub |-> d["SESSION_SUB"]]

\* ---- state -----------------------------------------------------------------
VARIABLES
    sessions,       \* the rows of the Supabase table 'sessions'; the row id is the index
    now,            \* the wall clock, in hours
    nextSub,        \* the number of the next provisioner run
    WORKER_SECRET,  \* the configured worker secret, "unset" when the variable is missing
    env,            \* the environment: the inputs clients send and the faults that occur
    pc,             \* per worker: the position inside its handler
    req             \* per worker: the handler's arguments, locals and call record

vars == <<sessions, now, nextSub, WORKER_SECRET, env, pc, req>>

NoResult == [kind |-> "none", detail |-> None]

IdleReq ==
    [ op |-> "none", user |-> None, duration_hours |-> 0, sub |-> None,
      output_dict |-> NoDict, session_sub |-> None, expires_at |-> 0,
      script_rc |-> "none", shape |-> <<>>, created_sub |-> None,
      expired_sessions |-> <<>>, cleanup_results |-> <<>>, batch |-> <<>>,
      lookupFailed |-> FALSE, events |-> <<>>, now_utc |-> 0,
      worker_secret |-> "none",
      createCalls |-> 0, cleanups |-> <<>>, cleanupRcs |-> <<>>,
      insertAttempts |-> 0, insertFailed |-> FALSE,
      updateAttempts |-> 0, updateFailed |-> FALSE,
      seenActive |-> None, result |-> NoResult ]

InitWith(e, secret) ==
    /\ sessions = <<>>
    /\ now = 0
    /\ nextSub = 1
    /\ WORKER_SECRET = secret
    /\ env = e
    /\ pc = [p \in Procs |-> "idle"]
    /\ req = [p \in Procs |-> IdleReq]

\* ---- the store ---------------------------------------------------------------
\* select ... eq('user_id', u).eq('status', 'active'): the matching row ids
select_active_of_user(u) ==
    {i \in 1..Len(sessions) : sessions[i].user_id = u /\ sessions[i].status = "active"}

\* select ... eq('session_sub', sub).eq('user_id', u)
select_by_sub_any_user(sub, u) ==
    {i \in 1..Len(sessions) : sessions[i].session_sub = sub}
select_by_sub_and_user(sub, u) ==
    {i \in 1..Len(sessions) : sessions[i].session_sub = sub /\ sessions[i].user_id = u}

\* select ... eq('status', 'active').lt('expires_at', t), in row order
is_expired_inclusive(session, t) == session.expires_at <= t
is_expired(session, t) == session.expires_at < t

RECURSIVE ExpiredFrom(_, _)
ExpiredFrom(i, t) ==
    IF i > Len(sessions) THEN <<>>
    ELSE IF sessions[i].status = "active" /\ is_expired(sessions[i], t)
         THEN <<[id |-> i, session_sub |-> sessions[i].session_sub]>> \o ExpiredFrom(i + 1, t)
         ELSE ExpiredFrom(i + 1, t)
select_expired_active(t) == ExpiredFrom(1, t)

FirstRow(rows) == CHOOSE i \in rows : \A j \in rows : i <= j

\* update({'status': st}).eq('session_sub', sub): every row with that sub
update_status_by_sub_if_active(sub, st) ==
    [i \in 1..Len(sessions) |->
        IF sessions[i].session_sub = sub /\ sessions[i].status = "active"
        THEN [sessions[i] EXCEPT !.status = st] ELSE sessions[i]]
update_status_by_sub(sub, st) ==
    [i \in 1..Len(sessions) |->
        IF sessions[i].session_sub = sub
        THEN [sessions[i] EXCEPT !.status = st] ELSE sessions[i]]

\* update({'status': st}).eq('id', id)
update_status_by_id_scrubbing(id, st) ==
    [i \in 1..Len(sessions) |->
        IF i = id THEN [sessions[i] EXCEPT !.status = st, !.rdp_password = None]
        ELSE sessions[i]]
update_status_by_id(id, st) ==
    [i \in 1..Len(sessions) |->
        IF i = id THEN [sessions[i] EXCEPT !.status = st] ELSE sessions[i]]

\* ---- scheduling -------------------------------------------------------------
InFlight(p) == pc[p] \notin {"idle", "done"}
NoneDone == \A q \in Procs : pc[q] # "done"

Accept(p) ==
    /\ pc[p] = "idle"
    /\ NoneDone
    /\ env.concurrent \/ \A q \in Procs : ~InFlight(q)

Step(p, label) == pc[p] = label /\ NoneDone

\* The handler returns or raises: its locals die, its call record stays.
Return(p, r, kind, detail) ==
    /\ pc' = [pc EXCEPT ![p] = "done"]
    /\ req' = [req EXCEPT ![p] =
                 [r EXCEPT !.result = [kind |-> kind, detail |-> detail],
                           !.output_dict = NoDict, !.session_sub = None,
                           !.expires_at = 0, !.expired_sessions = <<>>]]

Goto(p, r, label) ==
    /\ pc' = [pc EXCEPT ![p] = label]
    /\ req' = [req EXCEPT ![p] = r]

\* The creates in flight that have not yet run the create script.
PendingCreates == Cardinality({p \in Procs : pc[p] \in {"a_script", "b_script"}})

\* The order of the two teardown calls for one session: the cleanup script
\* run, then the status update.
teardown_events_update_first(sub) ==
    <<[what |-> "update", sub |-> sub], [what |-> "cleanup", sub |-> sub]>>
teardown_events(sub) ==
    <<[what |-> "cleanup", sub |-> sub], [what |-> "update", sub |-> sub]>>

\* The try/except around a status update: a store exception becomes the 503
\* HTTPException, otherwise the handler goes on to its own ending.
status_update_result_swallowed(storeOk, ending) == ending
status_update_result(storeOk, ending) ==
    IF storeOk THEN ending ELSE "StoreUnavailable"

\* SessionResponse(...) validates: its four string fields must not be None.
AllPresent(d) == \A k \in OutputKeys : d[k] # None

\* ---- create_session, line 158 ------------------------------------------------
\* Step 1: query for an active session of the user.  The query is not inside
\* a try block: a store failure leaves the handler as an unhandled exception.
\* There is no check of duration_hours.
create_session_a_check(p) ==
    /\ Accept(p)
    /\ nextSub + PendingCreates <= MaxSubs
    /\ \E u \in env.users, d \in env.durations, storeOk \in env.storeOks :
         LET r == [IdleReq EXCEPT !.op = "create_a", !.user = u, !.duration_hours = d]
             active == select_active_of_user(u)
         IN  IF ~storeOk
             THEN Return(p, r, "InternalError", None)
             ELSE IF active # {}
             THEN Return(p, [r EXCEPT !.seenActive = sessions[FirstRow(active)].session_sub],
                         "Conflict", None)
             ELSE Goto(p, r, "a_script")
    /\ UNCHANGED <<sessions, now, nextSub, WORKER_SECRET, env>>

\* Steps 2-4: compute the expiry, run the create script, parse its output.
create_session_a_script(p) ==
    /\ Step(p, "a_script")
    /\ \E rc \in env.createRcs, shape \in env.shapes :
         LET r == [req[p] EXCEPT !.expires_at = now + req[p].duration_hours,
                                 !.createCalls = @ + 1,
                                 !.script_rc = rc]
             parsed == parse_output_a(shape, nextSub)
             rs == [r EXCEPT !.shape = shape, !.created_sub = nextSub]
         IN  IF run_shell_script_raises(rc)
             THEN /\ Return(p, r, run_shell_script_error(rc), None)
                  /\ UNCHANGED nextSub
             ELSE /\ nextSub' = nextSub + 1
                  /\ IF ~parsed.ok
                     THEN Return(p, rs, "ProvisionUnparsableOutput", None)
                     ELSE Goto(p, [rs EXCEPT !.output_dict = parsed.dict,
                                            !.session_sub = parsed.dict["SESSION_SUB"]],
                               "a_insert")
    /\ UNCHANGED <<sessions, now, WORKER_SECRET, env>>

\* The except branch of step 5: run the cleanup script, then raise 503.  An
\* exception of the cleanup run is not caught.  With SESSION_SUB None the
\* argument list holds None: subprocess.run raises TypeError, no script runs.
create_session_a_compensate(p, r, rc) ==
    LET arg == r.output_dict["SESSION_SUB"]
        rr == [r EXCEPT !.cleanups = Append(@, arg), !.cleanupRcs = Append(@, rc)]
    IN  IF arg = None
        THEN Return(p, r, "InternalError", None)
        ELSE IF run_shell_script_raises(rc)
        THEN Return(p, rr, run_shell_script_error(rc), None)
        ELSE Return(p, rr, "StoreUnavailable", None)

\* Steps 5-6: insert the row and build the response.  created_at is left to
\* the table's default.  SessionResponse requires strings: with a None among
\* session_sub, fqdn, rdp_username, rdp_password it raises inside the try
\* block, after the row was inserted, and the except branch runs.
create_session_a_insert(p) ==
    /\ Step(p, "a_insert")
    /\ \E storeOk \in env.storeOks, rc \in env.cleanupRcs :
         LET r == [req[p] EXCEPT !.insertAttempts = @ + 1]
             d == req[p].output_dict
             row == [ user_id |-> req[p].user,
                      session_sub |-> d["SESSION_SUB"],
                      fqdn |-> d["FQDN"],
                      rdp_username |-> d["RDP_USERNAME"],
                      rdp_password |-> d["RDP_PASSWORD"],
                      status |-> "active",
                      created_at |-> now,
                      expires_at |-> req[p].expires_at ]
         IN  IF ~storeOk
             THEN /\ create_session_a_compensate(p, [r EXCEPT !.insertFailed = TRUE], rc)
                  /\ UNCHANGED sessions
             ELSE /\ sessions' = Append(sessions, row)
                  /\ IF AllPresent(d)
                     THEN Return(p, r, "Created", d["SESSION_SUB"])
                     ELSE create_session_a_compensate(p, r, rc)
    /\ UNCHANGED <<now, nextSub, WORKER_SECRET, env>>

\* ---- create_session, line 301 ------------------------------------------------
\* Steps 1-2: validate the duration, query for an active session of the user.
duration_valid(d) == MinDuration <= d /\ d <= MaxDuration

create_session_b_check(p) ==
    /\ Accept(p)
    /\ nextSub + PendingCreates <= MaxSubs
    /\ \E u \in env.users, d \in env.durations, storeOk \in env.storeOks :
         LET r == [IdleReq EXCEPT !.op = "create_b", !.user = u, !.duration_hours = d]
             active == select_active_of_user(u)
         IN  IF ~duration_valid(d)
             THEN Return(p, r, "InvalidInput", None)
             ELSE IF ~storeOk
             THEN Return(p, r, "StoreUnavailable", None)
             ELSE IF active # {}
             THEN Return(p, [r EXCEPT !.seenActive = sessions[FirstRow(active)].session_sub],
                         "Conflict", sessions[FirstRow(active)].session_sub)
             ELSE Goto(p, r, "b_script")
    /\ UNCHANGED <<sessions, now, nextSub, WORKER_SECRET, env>>

\* Steps 3-4: run the create script and parse its output.  On a parse error
\* the cleanup script is run with session_sub when that local is bound (an
\* unbound local raises inside the inner try and is ignored), and whatever
\* the cleanup does is ignored.
create_session_b_script(p) ==
    /\ Step(p, "b_script")
    /\ \E rc \in env.createRcs, shape \in env.shapes, crc \in env.cleanupRcs :
         LET r == [req[p] EXCEPT !.createCalls = @ + 1, !.script_rc = rc]
             parsed == parse_output_b(shape, nextSub)
             rs == [r EXCEPT !.shape = shape, !.created_sub = nextSub]
         IN  IF run_shell_script_raises(rc)
             THEN /\ Return(p, r, run_shell_script_error(rc), None)
                  /\ UNCHANGED nextSub
             ELSE /\ nextSub' = nextSub + 1
                  /\ IF parsed.ok
                     THEN Goto(p, [rs EXCEPT !.output_dict = parsed.dict,
                                             !.session_sub = parsed.session_sub],
                               "b_insert")
                     ELSE IF parsed.session_sub # None
                     THEN Return(p, [rs EXCEPT !.cleanups = Append(@, parsed.session_sub),
                                               !.cleanupRcs = Append(@, crc)],
                                 "ProvisionUnparsableOutput", None)
                     ELSE Return(p, rs, "ProvisionUnparsableOutput", None)
    /\ UNCHANGED <<sessions, now, WORKER_SECRET, env>>

\* Step 5: compute the expiry, insert the row; on a store failure run the
\* cleanup script, ignore its outcome and raise 503.
create_session_b_insert(p) ==
    /\ Step(p, "b_insert")
    /\ \E storeOk \in env.storeOks, rc \in env.cleanupRcs :
         LET r == [req[p] EXCEPT !.insertAttempts = @ + 1,
                                 !.expires_at = now + req[p].duration_hours]
             d == req[p].output_dict
             row == [ user_id |-> req[p].user,
                      session_sub |-> req[p].session_sub,
                      fqdn |-> d["FQDN"],
                      rdp_username |-> RdpUsername,
                      rdp_password |-> d["RDP_PASSWORD"],
                      status |-> "active",
                      created_at |-> now,
                      expires_at |-> now + req[p].duration_hours ]
         IN  IF ~storeOk
             THEN /\ Return(p, [r EXCEPT !.insertFailed = TRUE,
                                         !.cleanups = Append(@, req[p].session_sub),
                                         !.cleanupRcs = Append(@, rc)],
                            "StoreUnavailable", None)
                  /\ UNCHANGED sessions
             ELSE /\ sessions' = Append(sessions, row)
                  /\ Return(p, r, "Created", req[p].session_sub)
    /\ UNCHANGED <<now, nextSub, WORKER_SECRET, env>>

\* ---- delete_session, line 223 ------------------------------------------------
\* Step 1: look the session up by sub, owner and status 'active'.  The query
\* is not inside a try block.
delete_session_a_lookup(p) ==
    /\ Accept(p)
    /\ \E u \in env.users, sub \in 1..MaxSubs, storeOk \in env.storeOks :
         LET r == [IdleReq EXCEPT !.op = "delete_a", !.user = u, !.sub = sub]
             found == select_by_sub_and_user(sub, u) \cap select_active_of_user(u)
         IN  IF ~storeOk
             THEN Return(p, [r EXCEPT !.lookupFailed = TRUE], "InternalError", None)
             ELSE IF found = {}
             THEN Return(p, r, "NotFound", None)
             ELSE Goto(p, r, "a_update")
    /\ UNCHANGED <<sessions, now, nextSub, WORKER_SECRET, env>>

\* Steps 2-3: run the cleanup script, ignoring its HTTPException, then set the
\* status of every row with this sub to 'terminated'.  The final
\* JSONResponse(status_code=...) lacks its required content argument, so the
\* handler ends in a TypeError after the update.
delete_session_a_update(p) ==
    /\ Step(p, "a_update")
    /\ \E rc \in env.cleanupRcs, storeOk \in env.storeOks :
         LET r == [req[p] EXCEPT !.cleanups = Append(@, req[p].sub),
                                 !.cleanupRcs = Append(@, rc),
                                 !.updateAttempts = @ + 1,
                                 !.updateFailed = ~storeOk,
                                 !.events = @ \o teardown_events(req[p].sub)]
         IN  /\ sessions' = IF storeOk
                             THEN update_status_by_sub(req[p].sub, "terminated")
                             ELSE sessions
             /\ Return(p, r, status_update_result(storeOk, "InternalError"), None)
    /\ UNCHANGED <<now, nextSub, WORKER_SECRET, env>>

\* ---- delete_session, line 385 ------------------------------------------------
already_terminal_unchecked(session) == FALSE
already_terminal(session) == session.status # "active"

\* Look the session up by sub and owner; a session that is not active is
\* answered with a message naming its status.
delete_session_b_lookup(p) ==
    /\ Accept(p)
    /\ \E u \in env.users, sub \in 1..MaxSubs, storeOk \in env.storeOks :
         LET r == [IdleReq EXCEPT !.op = "delete_b", !.user = u, !.sub = sub]
             found == select_by_sub_and_user(sub, u)
         IN  IF ~storeOk
             THEN Return(p, [r EXCEPT !.lookupFailed = TRUE], "StoreUnavailable", None)
             ELSE IF found = {}
             THEN Return(p, r, "NotFound", None)
             ELSE IF already_terminal(sessions[FirstRow(found)])
             THEN Return(p, r, "AlreadyTerminal", None)
             ELSE Goto(p, r, "b_update")
    /\ UNCHANGED <<sessions, now, nextSub, WORKER_SECRET, env>>

\* Run the cleanup script, whose HTTPException leaves the handler, then set
\* the status of every row with this sub to 'cleaned'.
delete_session_b_update(p) ==
    /\ Step(p, "b_update")
    /\ \E rc \in env.cleanupRcs, storeOk \in env.storeOks :
         LET r == [req[p] EXCEPT !.cleanups = Append(@, req[p].sub),
                                 !.cleanupRcs = Append(@, rc),
                                 !.events = @ \o SubSeq(teardown_events(req[p].sub), 1, 1)]
             ru == [req[p] EXCEPT !.cleanups = Append(@, req[p].sub),
                                  !.cleanupRcs = Append(@, rc),
                                  !.updateAttempts = @ + 1,
                                  !.updateFailed = ~storeOk,
                                  !.events = @ \o teardown_events(req[p].sub)]
         IN  IF run_shell_script_raises(rc)
             THEN /\ Return(p, r, run_shell_script_error(rc), None)
                  /\ UNCHANGED sessions
             ELSE /\ sessions' = IF storeOk
                                  THEN update_status_by_sub(req[p].sub, "cleaned")
                                  ELSE sessions
                  /\ Return(p, ru, status_update_result(storeOk, "Terminated"), None)
    /\ UNCHANGED <<now, nextSub, WORKER_SECRET, env>>

\* ---- admin_revoke_session, line 268 --------------------------------------------
\* Run the cleanup script, ignoring its HTTPException, then set the status of
\* every row with this sub to 'revoked', whatever the status was.  The final
\* JSONResponse(status_code=...) raises TypeError as in delete_session.
admin_revoke_session(p) ==
    /\ Accept(p)
    /\ \E sub \in 1..MaxSubs, rc \in env.cleanupRcs, storeOk \in env.storeOks :
         LET r == [IdleReq EXCEPT !.op = "revoke", !.sub = sub,
                                  !.cleanups = <<sub>>, !.cleanupRcs = <<rc>>,
                                  !.updateAttempts = 1,
                                  !.updateFailed = ~storeOk,
                                  !.events = teardown_events(sub)]
         IN  /\ sessions' = IF storeOk THEN update_status_by_sub(sub, "revoked")
                             ELSE sessions
             /\ Return(p, r, status_update_result(storeOk, "InternalError"), None)
    /\ UNCHANGED <<now, nextSub, WORKER_SECRET, env>>

\* ---- worker_cleanup, line 419 --------------------------------------------------
\* The value of the X-Worker-Secret header is "absent" when the request has no
\* such header.  Without a configured secret every request is let in.
worker_auth(header) == WORKER_SECRET = "unset" \/ header = WORKER_SECRET

\* The dependency worker_auth, then step 1: the active sessions whose
\* expires_at is before now.
worker_cleanup_query(p) ==
    /\ Accept(p)
    /\ \E header \in env.headers, storeOk \in env.storeOks :
         LET r == [IdleReq EXCEPT !.op = "worker", !.now_utc = now,
                                  !.worker_secret = header]
             expired == select_expired_active(now)
         IN  IF ~worker_auth(header)
             THEN Return(p, r, "Unauthorized", None)
             ELSE IF ~storeOk
             THEN Return(p, [r EXCEPT !.lookupFailed = TRUE], "WorkerCleanupFailed", None)
             ELSE IF expired = <<>>
             THEN Return(p, r, "NoExpiredSessions", None)
             ELSE Goto(p, [r EXCEPT !.expired_sessions = expired, !.batch = expired],
                       "w_loop")
    /\ UNCHANGED <<sessions, now, nextSub, WORKER_SECRET, env>>

new_status_retry(cleanup_success) ==
    IF cleanup_success THEN "expired_cleaned" ELSE "active"
new_status(cleanup_success) ==
    IF cleanup_success THEN "expired_cleaned" ELSE "cleanup_failed"

\* Steps 2-3 for one session of the batch: run the cleanup script, then write
\* the status by row id; a failed update is recorded in the result list.
\* With a session_sub of None the argument list holds None: subprocess.run
\* raises TypeError, which only the outer except catches, and the sweep ends
\* with the 500 of line 463.
worker_cleanup_session(p) ==
    /\ Step(p, "w_loop")
    /\ \E rc \in env.cleanupRcs, storeOk \in env.storeOks :
         LET session == Head(req[p].expired_sessions)
             cleanup_success == ~run_shell_script_raises(rc)
             st == new_status(cleanup_success)
             entry == [session_sub |-> session.session_sub,
                       status |-> IF storeOk THEN st ELSE "db_update_failed"]
             r == [req[p] EXCEPT !.expired_sessions = Tail(@),
                                 !.cleanups = Append(@, session.session_sub),
                                 !.cleanupRcs = Append(@, rc),
                                 !.updateAttempts = @ + 1,
                                 !.events = @ \o teardown_events(session.session_sub),
                                 !.cleanup_results = Append(@, entry)]
         IN  IF session.session_sub = None
             THEN /\ Return(p, req[p], "WorkerCleanupFailed", None)
                  /\ UNCHANGED sessions
             ELSE /\ IF storeOk
                     THEN sessions' = update_status_by_id(session.id, st)
                     ELSE UNCHANGED sessions
                  /\ IF Tail(req[p].expired_sessions) = <<>>
                     THEN Return(p, r, "Processed", None)
                     ELSE Goto(p, r, "w_loop")
    /\ UNCHANGED <<now, nextSub, WORKER_SECRET, env>>

\* ---- the response is delivered, the clock advances ---------------------------
Finish(p) ==
    /\ pc[p] = "done"
    /\ pc' = [pc EXCEPT ![p] = "idle"]
    /\ req' = [req EXCEPT ![p] = IdleReq]
    /\ UNCHANGED <<sessions, now, nextSub, WORKER_SECRET, env>>

Tick ==
    /\ NoneDone
    /\ now < MaxTime
    /\ now' = now + 1
    /\ UNCHANGED <<sessions, nextSub, WORKER_SECRET, env, pc, req>>

Next ==
    \/ \E p \in Procs : create_session_a_check(p)
    \/ \E p \in Procs : create_session_a_script(p)
    \/ \E p \in Procs : create_session_a_insert(p)
    \/ \E p \in Procs : create_session_b_check(p)
    \/ \E p \in Procs : create_session_b_script(p)
    \/ \E p \in Procs : create_session_b_insert(p)
    \/ \E p \in Procs : delete_session_a_lookup(p)
    \/ \E p \in Procs : delete_session_a_update(p)
    \/ \E p \in Procs : delete_session_b_lookup(p)
    \/ \E p \in Procs : delete_session_b_update(p)
    \/ \E p \in Procs : admin_revoke_session(p)
    \/ \E p \in Procs : worker_cleanup_query(p)
    \/ \E p \in Procs : worker_cleanup_session(p)
    \/ \E p \in Procs : Finish(p)
    \/ Tick

\* ---- environments --------------------------------------------------------------
GoodOutput == <<start_tag, "SESSION_SUB", "FQDN", "RDP_USERNAME", "RDP_PASSWORD", end_tag>>

\* One client, valid input, a well-behaved provisioner and store, requests
\* served one after the other.
CalmEnv ==
    [ users |-> {1}, durations |-> {1}, shapes |-> {GoodOutput},
      createRcs |-> {"ok"}, cleanupRcs |-> {"ok"}, storeOks |-> {TRUE},
      headers |-> {"s3cret"}, concurrent |-> FALSE ]

Init == InitWith(CalmEnv, "s3cret")
Spec == Init /\ [][Next]_vars

\* Requests of one client interleave; the cleanup script may fail.
RaceEnv ==
    [ users |-> {1}, durations |-> {1}, shapes |-> {GoodOutput},
      createRcs |-> {"ok"}, cleanupRcs |-> {"ok", "failed"},
      storeOks |-> {TRUE},
      headers |-> {"s3cret"}, concurrent |-> TRUE ]

InitRace == InitWith(RaceEnv, "s3cret")
SpecRace == InitRace /\ [][Next]_vars

\* One client at a time; every fault of the provisioner, the cleanup script
\* and the store.
FaultEnv ==
    [ users |-> {1}, durations |-> {1}, shapes |-> {GoodOutput},
      createRcs |-> ScriptOutcomes, cleanupRcs |-> ScriptOutcomes,
      storeOks |-> {TRUE, FALSE},
      headers |-> {"s3cret"}, concurrent |-> FALSE ]

InitFault == InitWith(FaultEnv, "s3cret")
SpecFault == InitFault /\ [][Next]_vars

\* Two clients, one request at a time; the cleanup script and the store may
\* fail.
OwnerEnv ==
    [ users |-> {1, 2}, durations |-> {1}, shapes |-> {GoodOutput},
      createRcs |-> {"ok"}, cleanupRcs |-> {"ok", "failed"},
      storeOks |-> {TRUE, FALSE},
      headers |-> {"s3cret"}, concurrent |-> FALSE ]

InitOwner == InitWith(OwnerEnv, "s3cret")
SpecOwner == InitOwner /\ [][Next]_vars

\* One client at a time; every duration class and every output text.
InputEnv ==
    [ users |-> {1}, durations |-> {0, 1, 25}, shapes |-> OutputShapes,
      createRcs |-> {"ok"}, cleanupRcs |-> {"ok"}, storeOks |-> {TRUE},
      headers |-> {"s3cret"}, concurrent |-> FALSE ]

InitInput == InitWith(InputEnv, "s3cret")
SpecInput == InitInput /\ [][Next]_vars

\* One client at a time; the create script may leave the SESSION_SUB line out
\* of its output, and the cleanup script and the store may fail.
NoSubOutput == <<start_tag, "FQDN", "RDP_USERNAME", "RDP_PASSWORD", end_tag>>

ReapEnv ==
    [ users |-> {1}, durations |-> {1}, shapes |-> {GoodOutput, NoSubOutput},
      createRcs |-> {"ok"}, cleanupRcs |-> {"ok", "failed"},
      storeOks |-> {TRUE, FALSE},
      headers |-> {"s3cret"}, concurrent |-> FALSE ]

InitReap == InitWith(ReapEnv, "s3cret")

\* The scheduled sweep: the trigger is requested again and again and the
\* server serves it; the store answers the query of some of these sweeps and
\* accepts a status update of some of them.  A handler that has started runs
\* on, and a response is delivered.
sweep_query_answered(p) == worker_cleanup_query(p) /\ pc'[p] = "w_loop"
sweep_update_accepted(p) == worker_cleanup_session(p) /\ sessions' # sessions

\* The steps of a handler after its first.
handler_continues(p) ==
    \/ create_session_a_script(p) \/ create_session_a_insert(p)
    \/ create_session_b_script(p) \/ create_session_b_insert(p)
    \/ delete_session_a_update(p) \/ delete_session_b_update(p)
    \/ worker_cleanup_session(p)

ReapFairness ==
    \A p \in Procs :
        /\ SF_vars(sweep_query_answered(p))
        /\ SF_vars(sweep_update_accepted(p))
        /\ WF_vars(handler_continues(p))
        /\ WF_vars(Finish(p))

SpecReap == InitReap /\ [][Next]_vars /\ ReapFairness

\* One client at a time; the service runs with or without a configured worker
\* secret, and the sweep is requested with the right header value, a wrong one
\* or none.
GateEnv ==
    [ users |-> {1}, durations |-> {1}, shapes |-> {GoodOutput},
      createRcs |-> {"ok"}, cleanupRcs |-> {"ok", "failed"},
      storeOks |-> {TRUE},
      headers |-> {"s3cret", "guess", "absent"}, concurrent |-> FALSE ]

InitGate == \E secret \in {"s3cret", "unset"} : InitWith(GateEnv, secret)
SpecGate == InitGate /\ [][Next]_vars

\* ---- properties ------------------------------------------------------------------
Done(p) == pc[p] = "done"
IsCreate(p) == req[p].op \in {"create_a", "create_b"}
IsDelete(p) == req[p].op \in {"delete_a", "delete_b"}
TerminalStatuses == {"terminated", "expired_cleaned", "cleanup_failed", "revoked"}

\* C1: in every reachable state the store holds at most one 'active' row per
\* user, also when creates for one user interleave.
C1_AtMostOneActivePerUser ==
    \A u \in env.users : Cardinality(select_active_of_user(u)) <= 1

\* C2: when the create script succeeded and the insert failed, the cleanup
\* script was run exactly once, with the session id of that create run, and
\* the caller receives StoreUnavailable.
C2_InsertFailureCompensatedOnce ==
    \A p \in Procs :
        (Done(p) /\ IsCreate(p) /\ req[p].script_rc = "ok" /\ req[p].insertFailed)
        => /\ req[p].cleanups = <<req[p].created_sub>>
           /\ req[p].result.kind = "StoreUnavailable"

\* C3: a row is inserted only by a create request whose create script was
\* invoked and returned successfully (not on a non-zero exit, a timeout or a
\* missing script, and not without an invocation).
C3_InsertOnlyAfterProvisioning ==
    [][Len(sessions') > Len(sessions)
       => \E p \in Procs :
            /\ pc[p] \in {"a_insert", "b_insert"} /\ pc'[p] = "done"
            /\ req[p].createCalls = 1
            /\ req[p].script_rc = "ok"
            /\ Len(sessions') = Len(sessions) + 1
            /\ sessions'[Len(sessions')].status = "active"
            /\ sessions'[Len(sessions')].user_id = req[p].user]_vars

\* A create whose script failed has ended without an insert attempt, next to
\* a row that an earlier create inserted.
C3_Witness ==
    /\ Len(sessions) >= 1
    /\ \E p \in Procs :
         /\ Done(p) /\ IsCreate(p)
         /\ req[p].createCalls = 1
         /\ run_shell_script_raises(req[p].script_rc)
         /\ req[p].insertAttempts = 0

\* C4: once a row's status is terminated, expired_cleaned, cleanup_failed or
\* revoked, no step of any operation changes it to a different value.
C4_TerminalStatesFinal ==
    [][\A i \in 1..Len(sessions) :
          sessions[i].status \in TerminalStatuses
          => sessions'[i].status = sessions[i].status]_vars

\* C5: a row whose status is not 'active' never has status 'active' again,
\* whatever operations follow or interleave.
C5_NoReentryToActive ==
    [][\A i \in 1..Len(sessions) :
          sessions[i].status # "active" => sessions'[i].status # "active"]_vars

\* A termination request found the session already revoked and left it so.
C5_Witness ==
    \E p \in Procs, i \in 1..Len(sessions) :
        /\ Done(p) /\ req[p].op = "delete_b"
        /\ req[p].sub = sessions[i].session_sub
        /\ req[p].result.kind = "AlreadyTerminal"
        /\ sessions[i].status = "revoked"

\* C6: a create with durationHours outside 1..24 returns InvalidInput without
\* running the create script and without inserting a row.
C6_InvalidDurationRejected ==
    \A p \in Procs :
        (Done(p) /\ IsCreate(p) /\ ~duration_valid(req[p].duration_hours))
        => /\ req[p].result.kind = "InvalidInput"
           /\ req[p].createCalls = 0
           /\ req[p].insertAttempts = 0

\* C7: a create for a user whose active session S the handler found returns
\* Conflict naming S, runs no create script and writes nothing to the store.
C7_ConflictNamesExistingSub ==
    \A p \in Procs :
        (Done(p) /\ IsCreate(p) /\ req[p].seenActive # None)
        => /\ req[p].result = [kind |-> "Conflict", detail |-> req[p].seenActive]
           /\ req[p].createCalls = 0
           /\ req[p].insertAttempts = 0
           /\ req[p].updateAttempts = 0

\* C8: when the script output has the start marker but no end marker, the
\* create fails with ProvisionUnparsableOutput and attempts no insert.
C8_MissingEndMarkerRejected ==
    \A p \in Procs :
        (/\ Done(p) /\ IsCreate(p) /\ req[p].script_rc = "ok"
         /\ Contains(req[p].shape, start_tag) /\ ~Contains(req[p].shape, end_tag))
        => /\ req[p].result.kind = "ProvisionUnparsableOutput"
           /\ req[p].insertAttempts = 0

WellDelimited(out) ==
    /\ Contains(out, start_tag) /\ Contains(out, end_tag)
    /\ FirstIndex(out, start_tag) < FirstIndex(out, end_tag)

\* C9: when the output block is correctly delimited but lacks SESSION_SUB,
\* FQDN or RDP_PASSWORD, the create fails with ProvisionUnparsableOutput and
\* no row, in particular none with a None field, is inserted.
C9_MissingKeyRejected ==
    \A p \in Procs :
        (/\ Done(p) /\ IsCreate(p) /\ req[p].script_rc = "ok"
         /\ WellDelimited(req[p].shape)
         /\ \E i \in 1..Len(RequiredKeys) : ~Contains(req[p].shape, RequiredKeys[i]))
        => /\ req[p].result.kind = "ProvisionUnparsableOutput"
           /\ req[p].insertAttempts = 0
           /\ \A i \in 1..Len(sessions) :
                /\ sessions[i].session_sub # None
                /\ sessions[i].fqdn # None
                /\ sessions[i].rdp_password # None

\* C10: when the cleanup script fails during the termination of the caller's
\* active session (and the store accepts the update), the session's status
\* is 'terminated' when the request ends.
C10_CleanupFailureStillTerminates ==
    \A p \in Procs :
        (/\ Done(p) /\ IsDelete(p) /\ req[p].cleanupRcs # <<>>
         /\ run_shell_script_raises(req[p].cleanupRcs[1])
         /\ ~req[p].updateFailed)
        => \A i \in 1..Len(sessions) :
             (sessions[i].session_sub = req[p].sub /\ sessions[i].user_id = req[p].user)
             => sessions[i].status = "terminated"

\* C11: a termination request for a sub that no row of the caller carries
\* (unknown, or owned by another user) returns NotFound, runs no cleanup
\* script and leaves the store as it was.
C11_ForeignTerminateNotFound ==
    [][\A p \in Procs :
          (/\ pc[p] = "idle" /\ pc'[p] # "idle"
           /\ req'[p].op \in {"delete_a", "delete_b"}
           /\ ~req'[p].lookupFailed
           /\ ~\E i \in 1..Len(sessions) :
                 /\ sessions[i].session_sub = req'[p].sub
                 /\ sessions[i].user_id = req'[p].user)
          => /\ pc'[p] = "done"
             /\ req'[p].result.kind = "NotFound"
             /\ req'[p].cleanups = <<>>
             /\ req'[p].updateAttempts = 0
             /\ sessions' = sessions]_vars

\* A user asked to terminate the active session of another user and got
\* NotFound.
C11_Witness ==
    \E p \in Procs, i \in 1..Len(sessions) :
        /\ Done(p) /\ IsDelete(p)
        /\ req[p].result.kind = "NotFound"
        /\ sessions[i].session_sub = req[p].sub
        /\ sessions[i].user_id # req[p].user
        /\ sessions[i].status = "active"

\* C12: a termination request by the owner for a session that is no longer
\* active runs no cleanup script, writes no status and returns NotFound or
\* the 'already <status>' message.
C12_SecondTerminateHasNoEffect ==
    [][\A p \in Procs :
          (/\ pc[p] = "idle" /\ pc'[p] # "idle"
           /\ req'[p].op \in {"delete_a", "delete_b"}
           /\ ~req'[p].lookupFailed
           /\ \E i \in 1..Len(sessions) :
                 /\ sessions[i].session_sub = req'[p].sub
                 /\ sessions[i].user_id = req'[p].user
           /\ \A i \in 1..Len(sessions) :
                 (sessions[i].session_sub = req'[p].sub /\ sessions[i].user_id = req'[p].user)
                 => sessions[i].status # "active")
          => /\ pc'[p] = "done"
             /\ req'[p].result.kind \in {"NotFound", "AlreadyTerminal"}
             /\ req'[p].cleanups = <<>>
             /\ req'[p].updateAttempts = 0
             /\ sessions' = sessions]_vars

\* The owner's second termination request met the session that the first
\* one had moved out of 'active'.
C12_Witness ==
    \E p \in Procs, i \in 1..Len(sessions) :
        /\ Done(p) /\ IsDelete(p)
        /\ req[p].result.kind \in {"NotFound", "AlreadyTerminal"}
        /\ req[p].cleanups = <<>>
        /\ sessions[i].session_sub = req[p].sub
        /\ sessions[i].user_id = req[p].user
        /\ sessions[i].status \in {"terminated", "cleaned"}

\* C13: no step of a sweep changes a row, or runs the cleanup script for a
\* row, whose expires_at is not before the sweep's now or whose status is not
\* 'active'.
C13_ReaperTouchesOnlyExpiredActive ==
    [][\A p \in Procs :
          (req'[p].op = "worker" /\ req'[p] # req[p])
          => \A i \in 1..Len(sessions) :
               (sessions[i].expires_at >= req'[p].now_utc \/ sessions[i].status # "active")
               => /\ sessions'[i] = sessions[i]
                  /\ Len(req'[p].cleanups) > Len(req[p].cleanups)
                     => req'[p].cleanups[Len(req'[p].cleanups)] # sessions[i].session_sub]_vars

\* A sweep has processed an expired session and left alone an active one
\* that had not expired.
C13_Witness ==
    \E p \in Procs, i, j \in 1..Len(sessions) :
        /\ Done(p) /\ req[p].op = "worker" /\ req[p].result.kind = "Processed"
        /\ sessions[i].status \in {"expired_cleaned", "cleanup_failed"}
        /\ sessions[j].status = "active"
        /\ sessions[j].expires_at >= req[p].now_utc

\* C14: an authorised sweep whose query succeeded ends normally, and every
\* session of its batch got a cleanup run, a status update attempt and one
\* result entry, with the status decided by that session's own cleanup
\* outcome; nothing that happens to one session ends the sweep.
C14_ReaperProcessesWholeBatch ==
    \A p \in Procs :
        (/\ Done(p) /\ req[p].op = "worker"
         /\ req[p].result.kind # "Unauthorized" /\ ~req[p].lookupFailed)
        => /\ req[p].result.kind \in {"Processed", "NoExpiredSessions"}
           /\ Len(req[p].cleanupRcs) = Len(req[p].batch)
           /\ req[p].updateAttempts = Len(req[p].batch)
           /\ Len(req[p].cleanup_results) = Len(req[p].batch)
           /\ \A k \in 1..Len(req[p].cleanup_results) :
                LET entry == req[p].cleanup_results[k]
                    own == IF req[p].cleanupRcs[k] = "ok"
                           THEN "expired_cleaned" ELSE "cleanup_failed"
                IN  /\ entry.session_sub = req[p].batch[k].session_sub
                    /\ entry.status \in {own, "db_update_failed"}
                    /\ entry.status = own
                       => sessions[req[p].batch[k].id].status = own

\* C15: the row a create inserted has expires_at later than created_at by
\* exactly the requested duration_hours.
C15_ExpiryIsCreationPlusDuration ==
    \A p \in Procs :
        (Done(p) /\ IsCreate(p) /\ req[p].result.kind = "Created")
        => /\ sessions[Len(sessions)].expires_at > sessions[Len(sessions)].created_at
           /\ sessions[Len(sessions)].expires_at - sessions[Len(sessions)].created_at
                = req[p].duration_hours

\* C16: when a revoke request ends and the store accepted its update, every
\* row with the given sub has status 'revoked', whatever its status was and
\* whether the cleanup script succeeded or failed.
C16_RevokeLeavesRevoked ==
    \A p \in Procs :
        (Done(p) /\ req[p].op = "revoke" /\ ~req[p].updateFailed)
        => \A i \in 1..Len(sessions) :
             sessions[i].session_sub = req[p].sub => sessions[i].status = "revoked"

\* A revoke whose cleanup script failed has left the session revoked.
C16_Witness ==
    \E p \in Procs, i \in 1..Len(sessions) :
        /\ Done(p) /\ req[p].op = "revoke"
        /\ run_shell_script_raises(req[p].cleanupRcs[1])
        /\ sessions[i].session_sub = req[p].sub
        /\ sessions[i].status = "revoked"

\* C17: when the insert failed and the compensating cleanup failed too, the
\* caller still receives the insertion error StoreUnavailable.
C17_CleanupFailureNotReraised ==
    \A p \in Procs :
        (/\ Done(p) /\ IsCreate(p) /\ req[p].insertFailed
         /\ req[p].cleanupRcs # <<>>
         /\ req[p].cleanupRcs[1] \in {"failed", "notfound", "timeout"})
        => req[p].result.kind = "StoreUnavailable"

\* C18: when the create script fails, the caller receives that error
\* (ProvisionActionFailed for a non-zero exit, ProvisionTimeout for a
\* timeout), no insert is attempted and no cleanup script is run.
C18_ProvisionErrorPropagated ==
    \A p \in Procs :
        (/\ Done(p) /\ IsCreate(p) /\ req[p].createCalls = 1
         /\ req[p].script_rc \in {"failed", "notfound", "timeout"})
        => /\ req[p].script_rc = "failed" => req[p].result.kind = "ProvisionActionFailed"
           /\ req[p].script_rc = "timeout" => req[p].result.kind = "ProvisionTimeout"
           /\ req[p].script_rc = "notfound" => req[p].result.kind = "ProvisionScriptNotFound"
           /\ req[p].insertAttempts = 0
           /\ req[p].cleanups = <<>>

\* A create whose script timed out has ended with ProvisionTimeout.
C18_Witness ==
    \E p \in Procs :
        /\ Done(p) /\ IsCreate(p)
        /\ req[p].script_rc = "timeout"
        /\ req[p].result.kind = "ProvisionTimeout"
        /\ req[p].insertAttempts = 0

\* C19: whenever a step changes the status of a row, the operation taking
\* that step has, as its last two calls, run the cleanup script for that
\* row's sub and then issued the status update - in that order.
C19_CleanupBeforeStatusUpdate ==
    [][\A i \in 1..Len(sessions) :
          sessions'[i].status # sessions[i].status
          => \E p \in Procs :
               LET ev == req'[p].events
                   n == Len(ev)
               IN  /\ req'[p] # req[p]
                   /\ n = Len(req[p].events) + 2
                   /\ ev[n - 1] = [what |-> "cleanup", sub |-> sessions[i].session_sub]
                   /\ ev[n] = [what |-> "update", sub |-> sessions[i].session_sub]]_vars

\* A sweep ran a cleanup that failed and then marked the session.
C19_Witness ==
    \E p \in Procs, i \in 1..Len(sessions) :
        /\ Done(p) /\ req[p].op = "worker"
        /\ req[p].cleanupRcs = <<"failed">>
        /\ Len(req[p].events) = 2
        /\ sessions[i].session_sub = req[p].events[2].sub
        /\ sessions[i].status = "cleanup_failed"

\* C20: when the status update of a termination fails after the cleanup
\* script ran, the caller receives StoreUnavailable, the cleanup was run for
\* the session's sub, and the row is still 'active'.
C20_UpdateFailureReported ==
    \A p \in Procs :
        (Done(p) /\ IsDelete(p) /\ req[p].updateFailed)
        => /\ req[p].result.kind = "StoreUnavailable"
           /\ req[p].cleanups = <<req[p].sub>>
           /\ \A i \in 1..Len(sessions) :
                (sessions[i].session_sub = req[p].sub /\ sessions[i].user_id = req[p].user)
                => sessions[i].status = "active"

\* A termination ran the cleanup and then lost its status update.
C20_Witness ==
    \E p \in Procs, i \in 1..Len(sessions) :
        /\ Done(p) /\ IsDelete(p) /\ req[p].updateFailed
        /\ req[p].cleanups = <<req[p].sub>>
        /\ sessions[i].session_sub = req[p].sub
        /\ sessions[i].status = "active"

\* C21: rows are only ever added by the insert step of a create request, one
\* at a time; no step removes a row; and a step changes nothing of an
\* existing row but its status: user, sub, fqdn, credentials, creation and
\* expiry time stay as inserted.  In particular a terminate or a revoke for
\* a sub that no row has adds no row.
C21_RowsKeptAndOnlyStatusWritten ==
    [][/\ Len(sessions') >= Len(sessions)
       /\ \A i \in 1..Len(sessions) :
            [sessions'[i] EXCEPT !.status = sessions[i].status] = sessions[i]
       /\ Len(sessions') # Len(sessions)
          => /\ Len(sessions') = Len(sessions) + 1
             /\ \E p \in Procs :
                  /\ IsCreate(p)
                  /\ pc[p] \in {"a_insert", "b_insert"}
                  /\ req'[p].insertAttempts = req[p].insertAttempts + 1]_vars

\* A revoke for a sub that no row has ended while the store holds a row that
\* a sweep has marked, its other fields being those of the insert.
C21_Witness ==
    \E p \in Procs, i \in 1..Len(sessions) :
        /\ Done(p) /\ req[p].op = "revoke" /\ ~req[p].updateFailed
        /\ \A j \in 1..Len(sessions) : sessions[j].session_sub # req[p].sub
        /\ sessions[i].status \in {"expired_cleaned", "cleanup_failed"}
        /\ sessions[i].session_sub # None
        /\ sessions[i].rdp_password = sessions[i].session_sub
        /\ sessions[i].expires_at = sessions[i].created_at + 1

\* C22: under the scheduled sweep, a row that is 'active' with expires_at in
\* the past eventually has a status other than 'active', whether the cleanup
\* script succeeds or fails.
C22_ExpiredEventuallyReclaimed ==
    \A i \in 1..MaxSubs :
        (/\ i <= Len(sessions)
         /\ sessions[i].status = "active"
         /\ sessions[i].expires_at < now)
        ~> (i <= Len(sessions) /\ sessions[i].status # "active")

\* C23: a sweep request whose X-Worker-Secret header does not equal a
\* configured worker secret - also when no secret is configured - never gets
\* into the sweep: it runs no cleanup script, issues no status update and
\* ends with Unauthorized.
C23_SweepGatedBySecret ==
    \A p \in Procs :
        (/\ req[p].op = "worker"
         /\ WORKER_SECRET = "unset" \/ req[p].worker_secret # WORKER_SECRET)
        => /\ pc[p] # "w_loop"
           /\ req[p].batch = <<>>
           /\ req[p].cleanups = <<>>
           /\ req[p].updateAttempts = 0
           /\ Done(p) => req[p].result.kind = "Unauthorized"
====
